---- MODULE Spec2Model ----
(***************************************************************************)
(* Model of src/app.py, the "Invierte en Coyoacan" dashboard: one script   *)
(* that is re-executed from top to bottom on every user interaction.       *)
(* A pass loads the table (memoised), validates its columns, reads the     *)
(* three sidebar widgets, filters, computes the KPIs, and renders the map  *)
(* and the summary table.                                                  *)
(*                                                                         *)
(* Numbers.  Currency amounts and areas are integers (exact in binary64    *)
(* below 2^53).  indice_inversion is held in thousandths, cal_inv in       *)
(* tenths.  Medians and means are exact fractions [num, den].              *)
(* Missing values.  The script calls dropna() on categoria_cluster and     *)
(* colonia (lines 87, 118), so those two columns may hold NaN; isin()      *)
(* never matches NaN and groupby() drops NaN keys (pandas defaults).       *)
(***************************************************************************)
EXTENDS Integers, Sequences, FiniteSets, TLC

\* ---------------------------------------------------------------- bounds
\* Longest source table with all 14 columns present.
MaxRows == 3
\* Longest source table from which columns are dropped.
MaxDropRows == 1

\* ------------------------------------------------------------- utilities
Range(s) == {s[i] : i \in DOMAIN s}

RECURSIVE SetToSeq(_)
SetToSeq(S) ==
  IF S = {} THEN <<>>
  ELSE LET x == CHOOSE y \in S : TRUE IN <<x>> \o SetToSeq(S \ {x})

RECURSIVE SumSeq(_)
SumSeq(s) == IF s = <<>> THEN 0 ELSE Head(s) + SumSeq(Tail(s))

RECURSIVE Gcd(_, _)
Gcd(a, b) == IF b = 0 THEN a ELSE Gcd(b, a % b)

\* The exact value num/den (den > 0, num >= 0), in lowest terms.
Frac(num, den) ==
  LET g == Gcd(num, den) IN [num |-> num \div g, den |-> den \div g]

FracLess(x, y) == x.num * y.den < y.num * x.den

\* A missing value of a string column (numpy.nan in an object column).
NaN == "NaN"

\* Code-point order of the strings the model's tables use (Python compares
\* str by code point: "A" < "B", "N1" < "N2").
StrOrd(s) ==
  CASE s = "A" -> 1 [] s = "B" -> 2 [] s = "N1" -> 3 [] s = "N2" -> 4
    [] OTHER -> 5

StrLess(a, b) == StrOrd(a) < StrOrd(b)

\* sorted(series.dropna().unique())
SortedUnique(vals) ==
  SortSeq(SetToSeq(Range(vals) \ {NaN}), StrLess)

\* ------------------------------------------------------------ data frames
\* A frame is [cols: set of column names, rows: sequence of [idx, val]],
\* idx the pandas index label and val a function from cols to values.
Column(f, c) == [i \in DOMAIN f.rows |-> f.rows[i].val[c]]

\* f[c] = series, aligned row by row: adds the column or overwrites it.
WithColumn(f, c, series) ==
  [cols |-> f.cols \cup {c},
   rows |-> [i \in DOMAIN f.rows |->
              [idx |-> f.rows[i].idx,
               val |-> (c :> series[i]) @@ f.rows[i].val]]]

\* The heap of frame objects of one pass: object p is h[p].
Alloc(h, f) == [h |-> Append(h, f), p |-> Len(h) + 1]

\* Mutation of DfCopy: the "copy" is the same object.
DfCopyAlias(h, p) == [h |-> h, p |-> p]

\* DataFrame.copy(): a new object with the same contents.
DfCopy(h, p) == Alloc(h, h[p])

\* df[mask], mask a boolean series over the rows of object p: boolean
\* indexing always builds a new object.
BoolIndex(h, p, mask) ==
  LET kept == SelectSeq([i \in DOMAIN h[p].rows |-> i], LAMBDA i : mask[i])
  IN  Alloc(h, [cols |-> h[p].cols,
                rows |-> [k \in DOMAIN kept |-> h[p].rows[kept[k]]]])

\* df[c] = series: assignment of a column, in place.
SetItem(h, p, c, series) == [h EXCEPT ![p] = WithColumn(h[p], c, series)]

\* series.isin(values), series >= x, series <= x, series < x
Isin(series, values) == [i \in DOMAIN series |-> series[i] \in values]
Ge(series, x) == [i \in DOMAIN series |-> series[i] >= x]
Le(series, x) == [i \in DOMAIN series |-> series[i] <= x]
Lt(series, x) == [i \in DOMAIN series |-> series[i] < x]

\* ------------------------------------------------------ program constants
None == <<>>
Some(x) == <<x>>

required_cols ==
  << "latitud", "longitud",
     "categoria_cluster", "cluster_humano",
     "valor_unitario_suelo", "density",
     "indice_inversion", "antiguedad_norm",
     "superficie_terreno", "superficie_construccion",
     "colonia", "alcaldia", "valor_estimado",
     "cal_inv" >>

presupuesto_labels ==
  << "Cualquier presupuesto", "Hasta $1M", "$1M - $3M", "$3M - $5M",
     "Mas de $5M" >>

presupuesto_opciones(label) ==
  CASE label = "Cualquier presupuesto" -> << None, None >>
    [] label = "Hasta $1M"  -> << Some(0), Some(1000000) >>
    [] label = "$1M - $3M"  -> << Some(1000000), Some(3000000) >>
    [] label = "$3M - $5M"  -> << Some(3000000), Some(5000000) >>
    [] label = "Mas de $5M" -> << Some(5000000), None >>

\* ------------------------------------------------------------- load_data
\* Series.round(1) of x/100: x in hundredths, the result in tenths, ties to
\* the even digit (numpy.round).
Round1(x) ==
  LET q == x \div 10
      r == x % 10
  IN  IF r > 5 \/ (r = 5 /\ q % 2 = 1) THEN q + 1 ELSE q

\* Mutation of valor_estimado_fallback: the unit value alone.
valor_estimado_unit_only(t) == Column(t, "valor_unitario_suelo")

\* df["valor_unitario_suelo"] * df["superficie_terreno"]
valor_estimado_fallback(t) ==
  [i \in DOMAIN t.rows |->
     Column(t, "valor_unitario_suelo")[i] * Column(t, "superficie_terreno")[i]]

\* (df["indice_inversion"] * 10).round(1): thousandths * 10 is hundredths of
\* a score point.
cal_inv_fallback(t) ==
  [i \in DOMAIN t.rows |-> Round1(Column(t, "indice_inversion")[i])]

\* The body of load_data on the table read from the parquet file: the
\* frame it returns, or the KeyError a fallback raises when a column it
\* reads is absent.
load_data(t) ==
  LET need_ve  == "valor_estimado" \notin t.cols
      need_cal == "cal_inv" \notin t.cols
  IN  IF need_ve /\ "valor_unitario_suelo" \notin t.cols
        THEN [raised |-> "KeyError: valor_unitario_suelo", df |-> t]
      ELSE IF need_ve /\ "superficie_terreno" \notin t.cols
        THEN [raised |-> "KeyError: superficie_terreno", df |-> t]
      ELSE IF need_cal /\ "indice_inversion" \notin t.cols
        THEN [raised |-> "KeyError: indice_inversion", df |-> t]
      ELSE
        LET t1 == IF need_ve
                    THEN WithColumn(t, "valor_estimado", valor_estimado_fallback(t))
                    ELSE t
            t2 == IF need_cal
                    THEN WithColumn(t1, "cal_inv", cal_inv_fallback(t1))
                    ELSE t1
        IN  [raised |-> "", df |-> t2]

\* missing = [c for c in required_cols if c not in df.columns]
missing_of(f) == SelectSeq(required_cols, LAMBDA c : c \notin f.cols)

\* ------------------------------------------------------------- the widgets
\* A widget's session state: untouched (it returns its default) or the value
\* the user last gave it.
Untouched == [touched |-> FALSE, value |-> {}]
Chosen(v) == [touched |-> TRUE, value |-> v]

\* st.sidebar.multiselect(label, options=options, default=options): the
\* script uses what the widget returns as it is.
multiselect(state, options) ==
  IF state.touched THEN state.value ELSE Range(options)

\* Mutation of colonias_sel_of: the script reconciles the selection with the
\* neighbourhoods it has just computed.
colonias_sel_reconciled(w, options) ==
  multiselect(w.colonias, options) \cap Range(options)

\* colonias_sel = st.sidebar.multiselect("3. Colonias", options=
\* colonias_disponibles, default=colonias_disponibles)
colonias_sel_of(w, options) == multiselect(w.colonias, options)

\* ------------------------------------------------------------ the filters
\* Mutation of pre_max_clause: the upper bound is not applied.
pre_max_clause_skipped(hp, pres_max) == hp

\* if categorias_sel: df_pre = df_pre[df_pre["categoria_cluster"].isin(...)]
pre_cat_clause(hp, sel) ==
  IF sel # {}
    THEN BoolIndex(hp.h, hp.p,
                   Isin(Column(hp.h[hp.p], "categoria_cluster"), sel))
    ELSE hp

\* if pres_min is not None: df_pre = df_pre[df_pre["valor_estimado"] >= pres_min]
pre_min_clause(hp, pres_min) ==
  IF pres_min # None
    THEN BoolIndex(hp.h, hp.p,
                   Ge(Column(hp.h[hp.p], "valor_estimado"), pres_min[1]))
    ELSE hp

\* if pres_max is not None: df_pre = df_pre[df_pre["valor_estimado"] <= pres_max]
pre_max_clause(hp, pres_max) ==
  IF pres_max # None
    THEN BoolIndex(hp.h, hp.p,
                   Le(Column(hp.h[hp.p], "valor_estimado"), pres_max[1]))
    ELSE hp

\* Mutation of cat_clause: isin() applied to an empty selection too.
cat_clause_unguarded(hp, sel) ==
  BoolIndex(hp.h, hp.p,
                   Isin(Column(hp.h[hp.p], "categoria_cluster"), sel))

\* if categorias_sel: df_f = df_f[df_f["categoria_cluster"].isin(categorias_sel)]
cat_clause(hp, sel) ==
  IF sel # {}
    THEN BoolIndex(hp.h, hp.p,
                   Isin(Column(hp.h[hp.p], "categoria_cluster"), sel))
    ELSE hp

\* if pres_min is not None: df_f = df_f[df_f["valor_estimado"] >= pres_min]
min_clause(hp, pres_min) ==
  IF pres_min # None
    THEN BoolIndex(hp.h, hp.p,
                   Ge(Column(hp.h[hp.p], "valor_estimado"), pres_min[1]))
    ELSE hp

\* Mutation of max_clause: the upper bound is exclusive.
max_clause_exclusive(hp, pres_max) ==
  IF pres_max # None
    THEN BoolIndex(hp.h, hp.p,
                   Lt(Column(hp.h[hp.p], "valor_estimado"), pres_max[1]))
    ELSE hp

\* if pres_max is not None: df_f = df_f[df_f["valor_estimado"] <= pres_max]
max_clause(hp, pres_max) ==
  IF pres_max # None
    THEN BoolIndex(hp.h, hp.p,
                   Le(Column(hp.h[hp.p], "valor_estimado"), pres_max[1]))
    ELSE hp

\* if colonias_sel: df_f = df_f[df_f["colonia"].isin(colonias_sel)]
col_clause(hp, sel) ==
  IF sel # {}
    THEN BoolIndex(hp.h, hp.p, Isin(Column(hp.h[hp.p], "colonia"), sel))
    ELSE hp

\* ---------------------------------------------------------------- the KPIs
\* Series.median(): the middle value, the mean of the two middle values of
\* an even count, NaN (0/0 here) of an empty series.
NaNFloat == [num |-> 0, den |-> 0]
Zero == [num |-> 0, den |-> 1]

Median(vals) ==
  LET n == Len(vals)
      s == SortSeq(vals, LAMBDA a, b : a < b)
  IN  IF n = 0 THEN NaNFloat
      ELSE IF n % 2 = 1 THEN Frac(s[(n + 1) \div 2], 1)
      ELSE Frac(s[n \div 2] + s[n \div 2 + 1], 2)

\* Series.mean() of a non-empty series.
Mean(vals) == Frac(SumSeq(vals), Len(vals))

\* Mutation of valor_mediano_m2_of: the median without the empty-view guard.
valor_mediano_m2_unguarded(f) == Median(Column(f, "valor_unitario_suelo"))

\* df_f["valor_unitario_suelo"].median() if total_predios > 0 else 0
valor_mediano_m2_of(f) ==
  IF Len(f.rows) > 0 THEN Median(Column(f, "valor_unitario_suelo")) ELSE Zero

\* df_f["categoria_cluster"].nunique(): NaN is not counted.
num_categorias_of(f) ==
  Cardinality(Range(Column(f, "categoria_cluster")) \ {NaN})

\* The three branches of the text above the map.
subheader_of(categorias_sel) ==
  IF categorias_sel # {} /\ Cardinality(categorias_sel) = 1 THEN "single"
  ELSE IF categorias_sel # {} /\ Cardinality(categorias_sel) > 1 THEN "several"
  ELSE "explore"

\* -------------------------------------------------------- the summary table
\* The keys groupby(["categoria_cluster", "colonia"]) keeps: a row with NaN
\* in either key column is in no group (dropna=True, the default).
group_keys(f) ==
  {<<f.rows[i].val["categoria_cluster"], f.rows[i].val["colonia"]>> :
     i \in {j \in DOMAIN f.rows :
              /\ f.rows[j].val["categoria_cluster"] # NaN
              /\ f.rows[j].val["colonia"] # NaN}}

KeyLess(a, b) ==
  \/ StrLess(a[1], b[1])
  \/ a[1] = b[1] /\ StrLess(a[2], b[2])

\* .agg(...) of one group, after reset_index().
agg_row(f, k) ==
  LET g == SelectSeq(f.rows, LAMBDA r : /\ r.val["categoria_cluster"] = k[1]
                                        /\ r.val["colonia"] = k[2])
      col(c) == [i \in DOMAIN g |-> g[i].val[c]]
  IN  [categoria_cluster    |-> k[1],
       colonia              |-> k[2],
       n_predios            |-> Len(g),
       terreno_mediana      |-> Median(col("superficie_terreno")),
       construccion_mediana |-> Median(col("superficie_construccion")),
       cal_inv_media        |-> Mean(col("cal_inv"))]

\* groupby(...).agg(...).reset_index(): one row per key, in key order.
grouped(f) ==
  LET keys == SortSeq(SetToSeq(group_keys(f)), KeyLess)
  IN  [i \in DOMAIN keys |-> agg_row(f, keys[i])]

Descending(s) ==
  \A i, j \in DOMAIN s : i < j => ~FracLess(s[i].cal_inv_media, s[j].cal_inv_media)

\* .sort_values("cal_inv_media", ascending=False) with the default
\* quicksort, which is not stable: every descending arrangement of the
\* rows is a possible result.
sort_values_desc(g) ==
  LET n == Len(g)
      one == SortSeq(g, LAMBDA a, b : FracLess(b.cal_inv_media, a.cal_inv_media))
      ties == \E i, j \in DOMAIN g :
                i # j /\ g[i].cal_inv_media = g[j].cal_inv_media
  IN  IF ~ties THEN {one}
      ELSE {[i \in 1..n |-> g[pi[i]]] :
              pi \in {q \in [1..n -> 1..n] :
                        /\ \A i, j \in 1..n : i # j => q[i] # q[j]
                        /\ Descending([i \in 1..n |-> g[q[i]]])}}

\* df_f["cal_inv"].round(1).astype(str): the digits before and after the
\* point of each score held in tenths.
cal_inv_str_of(f) ==
  [i \in DOMAIN f.rows |->
     <<Column(f, "cal_inv")[i] \div 10, Column(f, "cal_inv")[i] % 10>>]

\* --------------------------------------------------------------- the script
\* Lines 87-247, run on the validated table df0 with the widgets' session
\* state w.  Object 1 of the pass's heap is df.
script(df0, w) ==
  LET h0 == <<df0>>
      cats == SortedUnique(Column(df0, "categoria_cluster"))
      cats_sel == multiselect(w.categorias, cats)
      pres == presupuesto_opciones(w.presupuesto)
      pres_min == pres[1]
      pres_max == pres[2]
      pre == pre_max_clause(
               pre_min_clause(
                 pre_cat_clause(DfCopy(h0, 1), cats_sel), pres_min), pres_max)
      cols_disp == SortedUnique(Column(pre.h[pre.p], "colonia"))
      cols_sel == colonias_sel_of(w, cols_disp)
      fil == col_clause(
               max_clause(
                 min_clause(
                   cat_clause(DfCopy(pre.h, 1), cats_sel), pres_min), pres_max),
               cols_sel)
      view == fil.h[fil.p]
      empty == view.rows = <<>>
      cp == IF empty THEN fil ELSE DfCopy(fil.h, fil.p)
      h_end == IF empty THEN fil.h
               ELSE SetItem(cp.h, cp.p, "cal_inv_str", cal_inv_str_of(cp.h[cp.p]))
      view_end == h_end[cp.p]
  IN  [df                   |-> h_end[1],
       categorias           |-> cats,
       categorias_sel       |-> cats_sel,
       df_pre               |-> h_end[pre.p],
       colonias_disponibles |-> cols_disp,
       colonias_sel         |-> cols_sel,
       df_f                 |-> view_end,
       total_predios        |-> Len(view.rows),
       num_categorias       |-> num_categorias_of(view),
       valor_mediano_m2     |-> valor_mediano_m2_of(view),
       subheader            |-> subheader_of(cats_sel),
       mapa                 |-> IF empty THEN "warning" ELSE "chart",
       tabla                |-> IF view_end.rows = <<>> THEN "info" ELSE "dataframe",
       resumenes            |-> IF view_end.rows = <<>> THEN {<<>>}
                                ELSE sort_values_desc(grouped(view_end))]

\* ------------------------------------------------------------ source tables
ConstCols ==
  ("latitud" :> 19) @@ ("longitud" :> -99) @@ ("cluster_humano" :> "h")
  @@ ("density" :> 1) @@ ("antiguedad_norm" :> 0)
  @@ ("superficie_construccion" :> 80) @@ ("alcaldia" :> "COYOACAN")

MkRow(cat, colonia, vus, st, ve, ind, cal) ==
  ("categoria_cluster" :> cat) @@ ("colonia" :> colonia)
  @@ ("valor_unitario_suelo" :> vus) @@ ("superficie_terreno" :> st)
  @@ ("valor_estimado" :> ve) @@ ("indice_inversion" :> ind)
  @@ ("cal_inv" :> cal) @@ ConstCols

\* The rows source tables are made of.  The stored valor_estimado and
\* cal_inv differ from what the fallbacks would compute for some rows.
RowPool ==
  << MkRow("A", "N1",  2000, 100, 1000000, 800, 80),
     MkRow("A", "N1", 10000, 100, 3000000, 600, 60),
     MkRow("B", "N2", 10000, 500, 5000000, 900, 90),
     MkRow(NaN, "N2",  2000, 500, 6000000, 874, 70),
     MkRow("B", NaN,  12000, 500,  200000, 700, 70),
     MkRow("A", "N2",  6000, 500, 3000000, 800, 80) >>

\* The columns a source table may lack.
Droppable ==
  {"valor_estimado", "cal_inv", "valor_unitario_suelo", "indice_inversion",
   "alcaldia"}

AllCols == Range(required_cols)

Restrict(r, cols) == [c \in cols |-> r[c]]

\* The tables of up to n pool rows with the columns cols (RangeIndex 0..).
Tables(n, cols) ==
  UNION {{[cols |-> cols,
           rows |-> [i \in 1..k |->
                       [idx |-> i - 1, val |-> Restrict(RowPool[s[i]], cols)]]] :
            s \in [1..k -> DOMAIN RowPool]} : k \in 0..n}

Sources ==
  Tables(MaxRows, AllCols)
  \cup UNION {Tables(MaxDropRows, AllCols \ D) : D \in SUBSET Droppable}

BlankFrame == [cols |-> {}, rows |-> <<>>]

\* -------------------------------------------------------------------- state
VARIABLES
  source,               \* the table in data/coyoacan_clusters.parquet
  cache,                \* st.cache_data's memo of load_data(): None or Some(frame)
  ui,                   \* session state of the three sidebar widgets
  status,               \* how the last pass ended: "none" before the first
  missing,              \* the list st.error reported
  df,                   \* the base table, as it is at the end of the pass
  categorias, categorias_sel, presupuesto_sel,
  df_pre, colonias_disponibles, colonias_sel,
  df_f,                 \* the filtered view, as it is at the end of the pass
  total_predios, num_categorias, valor_mediano_m2,
  subheader, mapa, tabla, resumen

vars ==
  << source, cache, ui, status, missing, df, categorias, categorias_sel,
     presupuesto_sel, df_pre, colonias_disponibles, colonias_sel, df_f,
     total_predios, num_categorias, valor_mediano_m2, subheader, mapa, tabla,
     resumen >>

\* What a pass that ends before the sidebar leaves unrendered.
NothingRendered ==
  /\ categorias' = <<>>
  /\ categorias_sel' = {}
  /\ presupuesto_sel' = presupuesto_labels[1]
  /\ df_pre' = BlankFrame
  /\ colonias_disponibles' = <<>>
  /\ colonias_sel' = {}
  /\ df_f' = BlankFrame
  /\ total_predios' = 0
  /\ num_categorias' = 0
  /\ valor_mediano_m2' = Zero
  /\ subheader' = "none"
  /\ mapa' = "none"
  /\ tabla' = "none"
  /\ resumen' = <<>>

Init ==
  /\ source \in Sources
  /\ cache = None
  /\ ui = [categorias |-> Untouched, presupuesto |-> presupuesto_labels[1],
           colonias |-> Untouched]
  /\ status = "none"
  /\ missing = <<>>
  /\ df = BlankFrame
  /\ categorias = <<>>
  /\ categorias_sel = {}
  /\ presupuesto_sel = presupuesto_labels[1]
  /\ df_pre = BlankFrame
  /\ colonias_disponibles = <<>>
  /\ colonias_sel = {}
  /\ df_f = BlankFrame
  /\ total_predios = 0
  /\ num_categorias = 0
  /\ valor_mediano_m2 = Zero
  /\ subheader = "none"
  /\ mapa = "none"
  /\ tabla = "none"
  /\ resumen = <<>>

\* One execution of app.py from line 1 with the widgets in state w.
\* load_data() runs its body on a cache miss; st.cache_data stores what it
\* returned (nothing when it raised) and hands every caller its own copy.
RunPass(w) ==
  \E ld \in {IF cache # None THEN [raised |-> "", df |-> cache[1]]
              ELSE load_data(source)} :
      /\ ui' = w
      /\ UNCHANGED source
      /\ IF ld.raised # ""
           THEN /\ status' = ld.raised
                /\ cache' = cache
                /\ missing' = <<>>
                /\ df' = BlankFrame
                /\ NothingRendered
         ELSE IF missing_of(ld.df) # <<>>
           THEN /\ status' = "stopped"
                /\ cache' = Some(ld.df)
                /\ missing' = missing_of(ld.df)
                /\ df' = ld.df
                /\ NothingRendered
         ELSE \E r \in {script(ld.df, w)} :
                  /\ status' = "ok"
                  /\ cache' = Some(ld.df)
                  /\ missing' = <<>>
                  /\ df' = r.df
                  /\ categorias' = r.categorias
                  /\ categorias_sel' = r.categorias_sel
                  /\ presupuesto_sel' = w.presupuesto
                  /\ df_pre' = r.df_pre
                  /\ colonias_disponibles' = r.colonias_disponibles
                  /\ colonias_sel' = r.colonias_sel
                  /\ df_f' = r.df_f
                  /\ total_predios' = r.total_predios
                  /\ num_categorias' = r.num_categorias
                  /\ valor_mediano_m2' = r.valor_mediano_m2
                  /\ subheader' = r.subheader
                  /\ mapa' = r.mapa
                  /\ tabla' = r.tabla
                  /\ resumen' \in r.resumenes

\* The page is opened or refreshed: a pass with the widgets as they are.
Rerun == RunPass(ui)

\* The user changes the category multiselect.  Its options never change, so
\* it keeps its value; the neighbourhood multiselect, whose options the
\* change may alter, either keeps what it holds or returns to its default.
ChangeCategorias ==
  /\ status = "ok"
  /\ \E S \in SUBSET Range(categorias),
        keep \in (IF ui.colonias.touched THEN BOOLEAN ELSE {TRUE}) :
       /\ S # categorias_sel
       /\ RunPass([ui EXCEPT !.categorias = Chosen(S),
                             !.colonias = IF keep THEN @ ELSE Untouched])

\* The user picks another budget bracket.
ChangePresupuesto ==
  /\ status = "ok"
  /\ \E b \in Range(presupuesto_labels),
        keep \in (IF ui.colonias.touched THEN BOOLEAN ELSE {TRUE}) :
       /\ b # presupuesto_sel
       /\ RunPass([ui EXCEPT !.presupuesto = b,
                             !.colonias = IF keep THEN @ ELSE Untouched])

\* The user changes the neighbourhood multiselect, among the options the
\* last pass offered.
ChangeColonias ==
  /\ status = "ok"
  /\ \E S \in SUBSET Range(colonias_disponibles) :
       /\ S # colonias_sel
       /\ RunPass([ui EXCEPT !.colonias = Chosen(S)])

Next ==
  \/ Rerun
  \/ ChangeCategorias
  \/ ChangePresupuesto
  \/ ChangeColonias

Spec == Init /\ [][Next]_vars

\* =================================================================== claims
\* The statements below describe the expected results directly from the
\* state, without the operators of the model above.

\* The rows of a frame as a set, each cut to the base table's columns.
RowsOf(f) ==
  {[idx |-> f.rows[i].idx, val |-> Restrict(f.rows[i].val, df.cols)] :
     i \in DOMAIN f.rows}

BaseRows == {df.rows[i] : i \in DOMAIN df.rows}

CatOf(r) == r.val["categoria_cluster"]
ColOf(r) == r.val["colonia"]
ValOf(r) == r.val["valor_estimado"]

\* lower <= v <= upper for the bracket, an unbounded side imposing nothing.
InBracket(v, label) ==
  CASE label = "Cualquier presupuesto" -> TRUE
    [] label = "Hasta $1M"  -> 0 <= v /\ v <= 1000000
    [] label = "$1M - $3M"  -> 1000000 <= v /\ v <= 3000000
    [] label = "$3M - $5M"  -> 3000000 <= v /\ v <= 5000000
    [] label = "Mas de $5M" -> 5000000 <= v

InCats(r) == categorias_sel = {} \/ CatOf(r) \in categorias_sel
InCols(r) == colonias_sel = {} \/ ColOf(r) \in colonias_sel

\* C2: an empty category selection (resp. an empty neighbourhood selection)
\* leaves the view unrestricted on that dimension: the view is exactly the
\* rows of the base table that pass the remaining clauses.
C2_EmptySelectionPassThrough ==
  status = "ok" =>
    /\ categorias_sel = {} =>
         RowsOf(df_f) = {r \in BaseRows :
                           /\ InBracket(ValOf(r), presupuesto_sel)
                           /\ (colonias_sel = {} \/ ColOf(r) \in colonias_sel)}
    /\ colonias_sel = {} =>
         RowsOf(df_f) = {r \in BaseRows :
                           /\ InBracket(ValOf(r), presupuesto_sel)
                           /\ (categorias_sel = {} \/ CatOf(r) \in categorias_sel)}

\* C2 witness: the user has emptied both multiselects, which offered
\* options, a bounded bracket is chosen, and rows are shown.
C2_Witness ==
  /\ status = "ok"
  /\ ui.categorias.touched /\ categorias # <<>> /\ categorias_sel = {}
  /\ ui.colonias.touched /\ colonias_disponibles # <<>> /\ colonias_sel = {}
  /\ presupuesto_sel = "$1M - $3M"
  /\ total_predios > 0

\* C3: a row of the base table is in the view iff it passes the category and
\* neighbourhood clauses and lower <= valor_estimado <= upper for the chosen
\* bracket, both bounds inclusive and an unbounded side imposing nothing; so
\* a row worth exactly 1,000,000 is kept by "Hasta $1M" and by "$1M - $3M",
\* and a row worth exactly 5,000,000 by "$3M - $5M" and by "Mas de $5M".
C3_BudgetInclusive ==
  status = "ok" =>
    /\ \A r \in BaseRows :
         r \in RowsOf(df_f) <=>
           InCats(r) /\ InCols(r) /\ InBracket(ValOf(r), presupuesto_sel)
    /\ \A r \in BaseRows :
         InCats(r) /\ InCols(r) =>
           /\ ValOf(r) = 1000000 /\ presupuesto_sel \in {"Hasta $1M", "$1M - $3M"}
                => r \in RowsOf(df_f)
           /\ ValOf(r) = 5000000 /\ presupuesto_sel \in {"$3M - $5M", "Mas de $5M"}
                => r \in RowsOf(df_f)

\* C3 witness: "Hasta $1M" is chosen and the view shows a row worth exactly
\* 1,000,000 while the table also holds a dearer row, which it leaves out.
C3_Witness ==
  /\ status = "ok"
  /\ presupuesto_sel = "Hasta $1M"
  /\ \E r \in RowsOf(df_f) : ValOf(r) = 1000000
  /\ \E r \in BaseRows : ValOf(r) > 1000000 /\ r \notin RowsOf(df_f)

\* C5: the neighbourhoods offered are exactly the distinct (non-missing)
\* neighbourhoods of the rows passing the category and budget clauses, in
\* ascending order without repetition; and when the selection is one offered
\* neighbourhood, the view holds at least one row.
C5_OfferedNeighbourhoods ==
  status = "ok" =>
    /\ Range(colonias_disponibles) =
         {ColOf(r) : r \in {x \in BaseRows :
                              /\ InCats(x)
                              /\ InBracket(ValOf(x), presupuesto_sel)
                              /\ ColOf(x) # NaN}}
    /\ \A i, j \in DOMAIN colonias_disponibles :
         i < j => StrLess(colonias_disponibles[i], colonias_disponibles[j])
    /\ \A n \in Range(colonias_disponibles) :
         colonias_sel = {n} => total_predios >= 1

\* C5 witness: the filters leave some neighbourhood of the table out of the
\* options, and the user has picked a single offered neighbourhood.
C5_Witness ==
  /\ status = "ok"
  /\ \E r \in BaseRows : ColOf(r) # NaN /\ ColOf(r) \notin Range(colonias_disponibles)
  /\ \E n \in Range(colonias_disponibles) : colonias_sel = {n}
  /\ ui.colonias.touched
  /\ total_predios >= 1

\* C7: when the view is empty the pass still completes: the KPIs are 0, 0
\* and 0, a notice stands in place of the map and another in place of the
\* table, and no summary is computed; the map and the table are rendered
\* iff the view is not empty.
C7_EmptyView ==
  status = "ok" =>
    /\ df_f.rows = <<>> =>
         /\ total_predios = 0
         /\ num_categorias = 0
         /\ valor_mediano_m2 = Zero
         /\ mapa = "warning"
         /\ tabla = "info"
         /\ resumen = <<>>
    /\ mapa = "chart" <=> df_f.rows # <<>>
    /\ tabla = "dataframe" <=> df_f.rows # <<>>
    /\ mapa \in {"chart", "warning"} /\ tabla \in {"dataframe", "info"}

\* C7 witness: the filters have emptied the view of a table that has rows.
C7_Witness ==
  /\ status = "ok"
  /\ df.rows # <<>>
  /\ df_f.rows = <<>>
  /\ mapa = "warning"

\* One clause is narrowed from its "all" selection to a strict subset in
\* this step, the other two selections staying as they are.
CategoriasNarrowed ==
  /\ categorias_sel = Range(categorias)
  /\ categorias_sel' \subseteq categorias_sel /\ categorias_sel' # categorias_sel
  /\ presupuesto_sel' = presupuesto_sel
  /\ colonias_sel' = colonias_sel

PresupuestoNarrowed ==
  /\ presupuesto_sel = "Cualquier presupuesto"
  /\ presupuesto_sel' # presupuesto_sel
  /\ categorias_sel' = categorias_sel
  /\ colonias_sel' = colonias_sel

ColoniasNarrowed ==
  /\ colonias_sel = Range(colonias_disponibles)
  /\ colonias_sel' \subseteq colonias_sel /\ colonias_sel' # colonias_sel
  /\ categorias_sel' = categorias_sel
  /\ presupuesto_sel' = presupuesto_sel

\* C1: the view holds only rows of the base table, and its row count does
\* not increase when exactly one clause is narrowed from its "all" selection
\* to any strict subset, the other clauses held fixed.
C1_SubsetAndMonotone ==
  [][ status = "ok" /\ status' = "ok" =>
        /\ RowsOf(df_f)' \subseteq BaseRows'
        /\ (CategoriasNarrowed \/ PresupuestoNarrowed \/ ColoniasNarrowed)
             => total_predios' <= total_predios ]_vars

\* What holds of C1 on every table: the view holds only rows of the base
\* table, and the count does not increase when the narrowed selection is not
\* empty (an empty selection removes the clause, and rows whose category or
\* neighbourhood is missing, which no selection matches, come back).
C1_NonEmptyNarrowing ==
  [][ status = "ok" /\ status' = "ok" =>
        /\ RowsOf(df_f)' \subseteq BaseRows'
        /\ \/ CategoriasNarrowed /\ categorias_sel' # {}
           \/ PresupuestoNarrowed
           \/ ColoniasNarrowed /\ colonias_sel' # {}
           => total_predios' <= total_predios ]_vars

\* The required columns still missing once the two fallbacks have been
\* tried: a fallback supplies its column when the columns it reads exist.
MissingAfterFallbacks ==
  LET ve  == IF {"valor_unitario_suelo", "superficie_terreno"} \subseteq source.cols
               THEN {"valor_estimado"} ELSE {}
      cal == IF "indice_inversion" \in source.cols THEN {"cal_inv"} ELSE {}
  IN  Range(required_cols) \ (source.cols \cup ve \cup cal)

\* C4: if a required column is missing after the fallbacks, the pass ends in
\* the missing-column error, the list it reports is exactly the missing
\* required columns, and no KPI, map or table is rendered.
C4_MissingColumnsReported ==
  status # "none" /\ MissingAfterFallbacks # {} =>
    /\ status = "stopped"
    /\ Range(missing) = MissingAfterFallbacks
    /\ mapa = "none" /\ tabla = "none" /\ subheader = "none"

\* What holds of C4: when load_data returns, the pass stops and reports
\* exactly the missing required columns.
C4_WhenLoadReturns ==
  status \in {"ok", "stopped"} =>
    /\ status = "stopped" <=> MissingAfterFallbacks # {}
    /\ Range(missing) = MissingAfterFallbacks
    /\ status = "stopped" => mapa = "none" /\ tabla = "none" /\ subheader = "none"

RECURSIVE SumCal(_)
SumCal(S) ==
  IF S = {} THEN 0
  ELSE LET r == CHOOSE x \in S : TRUE IN r.val["cal_inv"] + SumCal(S \ {r})

\* The view rows with the given category and neighbourhood.
PairRows(c, n) == {r \in RowsOf(df_f) : CatOf(r) = c /\ ColOf(r) = n}

\* C6: the summary of a non-empty view has exactly one row per distinct
\* (category, neighbourhood) pair present in the view, its count is the
\* number of view rows with that pair, the counts sum to the view's row
\* count, and the rows are in descending order of mean score.
C6_SummaryPerPair ==
  status = "ok" /\ tabla = "dataframe" =>
    /\ {<<resumen[i].categoria_cluster, resumen[i].colonia>> : i \in DOMAIN resumen}
         = {<<CatOf(r), ColOf(r)>> : r \in RowsOf(df_f)}
    /\ \A i, j \in DOMAIN resumen :
         i # j => <<resumen[i].categoria_cluster, resumen[i].colonia>>
                    # <<resumen[j].categoria_cluster, resumen[j].colonia>>
    /\ \A i \in DOMAIN resumen :
         resumen[i].n_predios =
           Cardinality(PairRows(resumen[i].categoria_cluster, resumen[i].colonia))
    /\ SumSeq([i \in DOMAIN resumen |-> resumen[i].n_predios]) = total_predios
    /\ \A i, j \in DOMAIN resumen :
         i < j => resumen[i].cal_inv_media.num * resumen[j].cal_inv_media.den
                    >= resumen[j].cal_inv_media.num * resumen[i].cal_inv_media.den

\* What holds of C6: the same over the view rows that have both a category
\* and a neighbourhood; rows missing either are in no summary row.
C6_SummaryOfKeyedRows ==
  status = "ok" /\ tabla = "dataframe" =>
    LET keyed == {r \in RowsOf(df_f) : CatOf(r) # NaN /\ ColOf(r) # NaN}
    IN  /\ {<<resumen[i].categoria_cluster, resumen[i].colonia>> : i \in DOMAIN resumen}
             = {<<CatOf(r), ColOf(r)>> : r \in keyed}
        /\ \A i, j \in DOMAIN resumen :
             i # j => <<resumen[i].categoria_cluster, resumen[i].colonia>>
                        # <<resumen[j].categoria_cluster, resumen[j].colonia>>
        /\ \A i \in DOMAIN resumen :
             /\ resumen[i].n_predios =
                  Cardinality(PairRows(resumen[i].categoria_cluster, resumen[i].colonia))
             /\ resumen[i].cal_inv_media.num * resumen[i].n_predios =
                  resumen[i].cal_inv_media.den *
                    SumCal(PairRows(resumen[i].categoria_cluster,
                                    resumen[i].colonia))
        /\ SumSeq([i \in DOMAIN resumen |-> resumen[i].n_predios]) = Cardinality(keyed)
        /\ \A i, j \in DOMAIN resumen :
             i < j => resumen[i].cal_inv_media.num * resumen[j].cal_inv_media.den
                        >= resumen[j].cal_inv_media.num * resumen[i].cal_inv_media.den

\* The example of C6: view rows (A, N1, 8.0), (A, N1, 6.0), (B, N2, 9.0)
\* give the summary [(B, N2, mean 9.0), (A, N1, mean 7.0)].
C6_Example ==
  /\ status = "ok"
  /\ [i \in DOMAIN df_f.rows |->
        <<CatOf(df_f.rows[i]), ColOf(df_f.rows[i]), df_f.rows[i].val["cal_inv"]>>]
       = << <<"A", "N1", 80>>, <<"A", "N1", 60>>, <<"B", "N2", 90>> >>
  => [i \in DOMAIN resumen |->
        <<resumen[i].categoria_cluster, resumen[i].colonia, resumen[i].n_predios,
          resumen[i].cal_inv_media>>]
       = << <<"B", "N2", 1, [num |-> 90, den |-> 1]>>,
            <<"A", "N1", 2, [num |-> 70, den |-> 1]>> >>

\* C8: after a successful load every row's valor_estimado is
\* valor_unitario_suelo x superficie_terreno when the source table has no
\* valor_estimado column (2000 x 100 gives 200000) and the source's own
\* value otherwise; the view holds the rows whose value, so defined, lies in
\* the chosen bracket.
C8_EstimatedValue ==
  status = "ok" =>
    /\ Len(df.rows) = Len(source.rows)
    /\ \A i \in DOMAIN df.rows :
         LET s == source.rows[i].val
             expected == IF "valor_estimado" \in source.cols
                           THEN s["valor_estimado"]
                           ELSE s["valor_unitario_suelo"] * s["superficie_terreno"]
         IN  /\ df.rows[i].idx = source.rows[i].idx
             /\ ValOf(df.rows[i]) = expected
             /\ (InCats(df.rows[i]) /\ InCols(df.rows[i])) =>
                  (df.rows[i] \in RowsOf(df_f) <=> InBracket(expected, presupuesto_sel))
             /\ (~("valor_estimado" \in source.cols)
                 /\ s["valor_unitario_suelo"] = 2000 /\ s["superficie_terreno"] = 100)
                  => ValOf(df.rows[i]) = 200000

\* C8 witness: the source has no valor_estimado column, a row of 2000 per
\* m2 and 100 m2 is valued 200000, and "Hasta $1M" shows it.
C8_Witness ==
  /\ status = "ok"
  /\ "valor_estimado" \notin source.cols
  /\ presupuesto_sel = "Hasta $1M"
  /\ \E r \in RowsOf(df_f) :
       /\ r.val["valor_unitario_suelo"] = 2000
       /\ r.val["superficie_terreno"] = 100
       /\ ValOf(r) = 200000

\* C9: no pass modifies the base table: at the end of every pass it is the
\* table the load produced, with the required columns and no display
\* column, and the memoised table never changes; the view is determined by
\* the base table and the three selections alone (its rows are the base rows
\* the selections keep, in the base table's order), so a pass whose
\* selections equal those of an earlier pass shows the same view.
C9_BaseTableUnchanged ==
  /\ [](status = "ok" =>
          /\ cache # None /\ df = cache[1]
          /\ df.cols = Range(required_cols)
          /\ "cal_inv_str" \notin df.cols
          /\ RowsOf(df_f) = {r \in BaseRows :
                               /\ InCats(r) /\ InCols(r)
                               /\ InBracket(ValOf(r), presupuesto_sel)}
          /\ \A i, j \in DOMAIN df_f.rows :
               i < j => df_f.rows[i].idx < df_f.rows[j].idx
          /\ df_f.cols = IF df_f.rows = <<>> THEN df.cols
                         ELSE df.cols \cup {"cal_inv_str"})
  /\ [][ /\ cache # None => cache' = cache
         /\ (/\ status = "ok" /\ status' = "ok"
             /\ categorias_sel' = categorias_sel
             /\ presupuesto_sel' = presupuesto_sel
             /\ colonias_sel' = colonias_sel) => df_f' = df_f ]_vars

\* C9 witness: no clause removed a row, so the view is the whole table, and
\* the display column has been added to the view.
C9_Witness ==
  /\ status = "ok"
  /\ df.rows # <<>>
  /\ Len(df_f.rows) = Len(df.rows)
  /\ "cal_inv_str" \in df_f.cols
  /\ ui.categorias.touched /\ ui.colonias.touched

\* C10: a neighbourhood selection the widget holds is used as it is, not
\* cut down to the neighbourhoods recomputed in the pass; the pass completes;
\* a selected neighbourhood outside the recomputed ones contributes no row;
\* and with a non-empty selection the view is exactly the rows passing the
\* category and budget clauses whose neighbourhood is selected.
C10_StaleSelection ==
  ui.colonias.touched =>
    /\ status = "ok"
    /\ colonias_sel = ui.colonias.value
    /\ \A n \in colonias_sel \ Range(colonias_disponibles) :
         \A r \in RowsOf(df_f) : ColOf(r) # n
    /\ colonias_sel # {} =>
         RowsOf(df_f) = {r \in BaseRows :
                           /\ InCats(r)
                           /\ InBracket(ValOf(r), presupuesto_sel)
                           /\ ColOf(r) \in colonias_sel}
    /\ df_f.rows = <<>> => mapa = "warning" /\ tabla = "info"

\* C10 witness: after a category or budget change the held selection names
\* only neighbourhoods that are no longer offered, and the view is empty.
C10_Witness ==
  /\ status = "ok"
  /\ ui.colonias.touched
  /\ colonias_sel # {}
  /\ colonias_sel \cap Range(colonias_disponibles) = {}
  /\ colonias_disponibles # <<>>
  /\ df_f.rows = <<>>

====
